---- MODULE Spec2Model ----
(***************************************************************************)
(* A model of LiquidUnitPosition                                           *)
(* (src/src/common/positions/liquid-unit.position.ts): one concentrated-    *)
(* liquidity position advanced by update() and rebalance().                 *)
(*                                                                         *)
(* Numbers.  The class computes in IEEE doubles.  The model computes in     *)
(* exact rationals [n |-> numerator, d |-> denominator] in lowest terms,    *)
(* and its inputs are chosen so that every square root the code takes is    *)
(* rational: the range type '192%', whose bounds are 0.04 x price and      *)
(* 1.96 x price, on the prices 306.25 and 1225, and the full-range band     *)
(* 0.01 x price to 100 x price on the prices 25 and 100.  On these inputs   *)
(* the model's value is the real number the double approximates.  Both      *)
(* tokens are given 0 decimals, so that no power of ten enters a root.      *)
(*                                                                         *)
(* Fixed-point factors.  Math.pow(2, 96) multiplies every square-root price *)
(* in liquidityForStrategy and divides out of each of its three results; a  *)
(* power of two scales a double exactly, so the model drops it.  A          *)
(* fee-growth accumulator is the BigInt k * 2^128; the model holds k, and   *)
(* Number(delta) / Math.pow(2, 128) is then k's difference.                 *)
(***************************************************************************)
EXTENDS Integers, Sequences, FiniteSets, TLC

----------------------------------------------------------------------------
(* Exact rational arithmetic standing for the code's number type.           *)

Abs(x) == IF x < 0 THEN -x ELSE x

RECURSIVE GCD(_, _)
GCD(a, b) == IF b = 0 THEN a ELSE GCD(b, a % b)

\* The rational n/d (d # 0) in lowest terms with a positive denominator.
Rat(n, d) ==
    LET g == GCD(Abs(n), Abs(d))
        s == IF d < 0 THEN -1 ELSE 1
    IN  [n |-> (s * n) \div g, d |-> Abs(d) \div g]

Num(i) == [n |-> i, d |-> 1]
Zero == Num(0)

\* Number.POSITIVE_INFINITY; it is stored in the full-range PositionRange and
\* never enters arithmetic.
Infinity == [n |-> 1, d |-> 0]

Add(a, b) ==
    LET g == GCD(a.d, b.d)
    IN  Rat(a.n * (b.d \div g) + b.n * (a.d \div g), (a.d \div g) * b.d)

Neg(a) == [n |-> -a.n, d |-> a.d]
Sub(a, b) == Add(a, Neg(b))

Mul(a, b) ==
    LET g1 == GCD(Abs(a.n), b.d)
        g2 == GCD(Abs(b.n), a.d)
    IN  IF a.n = 0 \/ b.n = 0 THEN Zero
        ELSE [n |-> (a.n \div g1) * (b.n \div g2),
              d |-> (a.d \div g2) * (b.d \div g1)]

\* a / b for b # 0.
Div(a, b) ==
    Mul(a, IF b.n < 0 THEN [n |-> -b.d, d |-> -b.n] ELSE [n |-> b.d, d |-> b.n])

\* a < b and a <= b, cross-multiplied by the denominators' common part only.
Lt(a, b) ==
    LET g == IF a.d = 0 \/ b.d = 0 THEN 1 ELSE GCD(a.d, b.d)
    IN  a.n * (b.d \div g) < b.n * (a.d \div g)
Le(a, b) ==
    LET g == IF a.d = 0 \/ b.d = 0 THEN 1 ELSE GCD(a.d, b.d)
    IN  a.n * (b.d \div g) <= b.n * (a.d \div g)
Gt(a, b) == Lt(b, a)
Ge(a, b) == Le(b, a)

\* Math.min / Math.max of two numbers.
MathMin(a, b) == IF Lt(b, a) THEN b ELSE a
MathMax(a, b) == IF Gt(b, a) THEN b ELSE a

IntMin(a, b) == IF b < a THEN b ELSE a
IntMax(a, b) == IF b > a THEN b ELSE a

\* The integer square root of a perfect square.
ISqrt(x) == CHOOSE r \in 0..x : r * r = x

\* Math.sqrt on a rational whose root is rational.
MathSqrt(a) == [n |-> ISqrt(a.n), d |-> ISqrt(a.d)]

\* Math.floor(x / s) * s and Math.ceil(x / s) * s for integers x and s > 0.
FloorTo(x, s) == (x \div s) * s
CeilTo(x, s) == -(((-x) \div s) * s)

\* Math.pow(10, e) for an integer e.
RECURSIVE Pow10(_)
Pow10(e) ==
    IF e = 0 THEN Num(1)
    ELSE IF e > 0 THEN Mul(Num(10), Pow10(e - 1))
    ELSE Div(Pow10(e + 1), Num(10))

----------------------------------------------------------------------------
(* The text fields of a PoolDayData / PoolHourData record (types.ts).       *)
(* A decimal text carries the number it spells; the other texts are the     *)
(* ones parseFloat and BigInt do not read as a finite number.               *)

FloatText(r) == [k |-> "num", v |-> r]
EmptyText == [k |-> "empty", v |-> Zero]        \* "" or a missing field
NaNText == [k |-> "nan", v |-> Zero]            \* e.g. "abc"
InfinityText == [k |-> "inf", v |-> Zero]       \* "Infinity"

\* parseFloat: the number a decimal text spells, NaN for "" and for text that
\* starts with no number, Infinity for "Infinity".
parseFloat(t) ==
    CASE t.k = "num" -> [k |-> "num", v |-> t.v]
      [] t.k = "inf" -> [k |-> "inf", v |-> Zero]
      [] OTHER -> [k |-> "nan", v |-> Zero]

isFinite(x) == x.k = "num"

\* a || b on two text fields: b when a is the empty text (or missing).
OrText(a, b) == IF a.k = "empty" THEN b ELSE a

BigIntText(i) == [k |-> "int", v |-> i]         \* the decimal text of i * 2^128
BadBigIntText == [k |-> "bad", v |-> 0]         \* text BigInt() rejects

\* BigInt(text) throws a SyntaxError on text that is no integer.
BigIntThrows_Never(t) == FALSE
BigIntThrows(t) == t.k # "int"
BigInt(t) == t.v

\* symbol.toUpperCase().includes('BTC')
IncludesBTC(symbol) == symbol \in {"cbBTC", "WBTC", "BTC"}

\* parseInt(positionType.replace('%', '')) for the percentage range types.
ParsePercent(positionType) ==
    CASE positionType = "192%" -> 192
      [] positionType = "300%" -> 300

----------------------------------------------------------------------------
(* TickPriceConverter                                                       *)

\* Math.round(Math.log(x) / Math.log(1.0001)) for the values x = valToLog the
\* model's prices, range bounds and candle bounds produce.
LogBase10001(x) ==
    CASE x = Rat(4, 1225) -> -57247        \* price 306.25
      [] x = Rat(1, 1225) -> -71111        \* price 1225
      [] x = Rat(4, 49) -> -25057          \* price 12.25 = 0.04 * 306.25
      [] x = Rat(4, 2401) -> -63977        \* price 600.25 = 1.96 * 306.25
      [] x = Rat(1, 49) -> -38920          \* price 49 = 0.04 * 1225
      [] x = Rat(1, 2401) -> -77840        \* price 2401 = 1.96 * 1225
      [] x = Rat(1, 25) -> -32190          \* price 25
      [] x = Rat(1, 100) -> -46054         \* price 100
      [] x = Num(1) -> 0                   \* price 1 = 0.04 * 25
      [] x = Rat(1, 4) -> -13864           \* price 4 = 0.04 * 100
      [] x = Rat(1, 196) -> -52784         \* price 196 = 1.96 * 100
      [] x = Rat(8, 6125) -> -66410        \* price 765.625 = 2.5 * 306.25
      [] x = Rat(2, 6125) -> -80274        \* price 3062.5 = 2.5 * 1225
      [] x = Rat(2, 125) -> -41354         \* price 62.5 = 2.5 * 25
      [] x = Rat(1, 250) -> -55217         \* price 250 = 2.5 * 100

\* The tick that is no number: Math.log of a negative value is NaN, and so is
\* all that Math.round, Math.floor, Math.ceil, Math.min and Math.max make of it.
NaNTick == 2147483647

getTickFromPrice(p, price) ==
    LET invertedPrice == Div(Num(1), price)
        valToLog == Mul(invertedPrice, Pow10(p.token1Decimals - p.token0Decimals))
    IN  IF Lt(valToLog, Zero) THEN NaNTick ELSE LogBase10001(valToLog)

----------------------------------------------------------------------------
(* RangeAllocator                                                           *)

\* The range of a percentage type from its two prices and their raw ticks.
tickRangeOf(priceLower, priceUpper, rawTickLower, rawTickUpper, rangePercent, tickSpacing) ==
    IF rawTickLower = NaNTick \/ rawTickUpper = NaNTick
    THEN [tickLower |-> NaNTick, tickUpper |-> NaNTick,
          priceLower |-> priceLower, priceUpper |-> priceUpper,
          rangeWidth |-> rangePercent]
    ELSE [tickLower |-> IntMin(FloorTo(rawTickLower, tickSpacing),
                               FloorTo(rawTickUpper, tickSpacing)),
          tickUpper |-> IntMax(CeilTo(rawTickLower, tickSpacing),
                               CeilTo(rawTickUpper, tickSpacing)),
          priceLower |-> priceLower, priceUpper |-> priceUpper,
          rangeWidth |-> rangePercent]

\* The range between two prices.
tickRangeBetween(p, priceLower, priceUpper, rangePercent, tickSpacing) ==
    tickRangeOf(priceLower, priceUpper, getTickFromPrice(p, priceLower),
                getTickFromPrice(p, priceUpper), rangePercent, tickSpacing)

\* The range of width rangePercent around currentPrice.
tickRangeAround(p, currentPrice, rangePercent, tickSpacing) ==
    tickRangeBetween(p,
                     Mul(currentPrice, Sub(Num(1), Div(rangePercent, Num(2)))),
                     Mul(currentPrice, Add(Num(1), Div(rangePercent, Num(2)))),
                     rangePercent, tickSpacing)

getPositionTickRange(p, currentTick, positionType, tickSpacing) ==
    IF positionType = "full-range"
    THEN [tickLower |-> -887272, tickUpper |-> 887272,
          priceLower |-> Zero, priceUpper |-> Infinity, rangeWidth |-> Infinity]
    ELSE tickRangeAround(p, p.currentToken0Price,
                         Rat(ParsePercent(positionType), 100), tickSpacing)

\* Returns <<amount0, amount1>>.
\* The three branches of tokensForStrategy, each from its delta.
tokensInRange(delta, sqrtPrice, sqrtHigh, sqrtLow, scale) ==
    << Mul(Mul(delta, Sub(Div(Num(1), sqrtPrice), Div(Num(1), sqrtHigh))), scale),
       Mul(delta, Sub(sqrtPrice, sqrtLow)) >>
tokensBelowRange(delta, sqrtHigh, sqrtLow) ==
    << Mul(delta, Sub(Div(Num(1), sqrtLow), Div(Num(1), sqrtHigh))), Zero >>
tokensAboveRange(delta, sqrtHigh, sqrtLow) ==
    << Zero, Mul(delta, Sub(sqrtHigh, sqrtLow)) >>

\* The branch tokensForStrategy takes: if (sqrtPrice > sqrtLow && sqrtPrice <
\* sqrtHigh) ... else if (sqrtPrice < sqrtLow) ... else ...
tokensRegion(sqrtPrice, sqrtLow, sqrtHigh) ==
    IF Gt(sqrtPrice, sqrtLow) /\ Lt(sqrtPrice, sqrtHigh) THEN "in-range"
    ELSE IF Lt(sqrtPrice, sqrtLow) THEN "below-range"
    ELSE "above-range"

\* tokensForStrategy from the three square roots; scale is Math.pow(10, decimal).
tokensForRoots(sqrtPrice, sqrtLow, sqrtHigh, investment, price, scale) ==
    IF tokensRegion(sqrtPrice, sqrtLow, sqrtHigh) = "in-range"
    THEN tokensInRange(
             Div(investment,
                 Add(Sub(sqrtPrice, sqrtLow),
                     Mul(Sub(Div(Num(1), sqrtPrice), Div(Num(1), sqrtHigh)),
                         Mul(price, scale)))),
             sqrtPrice, sqrtHigh, sqrtLow, scale)
    ELSE IF tokensRegion(sqrtPrice, sqrtLow, sqrtHigh) = "below-range"
    THEN tokensBelowRange(
             Div(investment,
                 Mul(Sub(Div(Num(1), sqrtLow), Div(Num(1), sqrtHigh)), price)),
             sqrtHigh, sqrtLow)
    ELSE tokensAboveRange(Div(investment, Sub(sqrtHigh, sqrtLow)), sqrtHigh, sqrtLow)

tokensForScale(minRange, maxRange, investment, price, scale) ==
    tokensForRoots(MathSqrt(Mul(price, scale)), MathSqrt(Mul(minRange, scale)),
                   MathSqrt(Mul(maxRange, scale)), investment, price, scale)

tokensForStrategy(minRange, maxRange, investment, price, decimal) ==
    tokensForScale(minRange, maxRange, investment, price, Pow10(decimal))

\* The factor Math.pow(2, 96) of sPrice, sLow and sHigh cancels in each of the
\* three quotients and is left out.
\* The branch liquidityForStrategy takes: if (sPrice <= sLow) ... else if
\* (sPrice <= sHigh && sPrice > sLow) ... else ...
liquidityRegion(sPrice, sLow, sHigh) ==
    IF Le(sPrice, sLow) THEN "below-range"
    ELSE IF Le(sPrice, sHigh) /\ Gt(sPrice, sLow) THEN "in-range"
    ELSE "above-range"

\* The number that is no number: 0 / 0, and Math.min of it and any number.
NaN == [n |-> 0, d |-> 0]

liquidityForRoots(sPrice, sLow, sHigh, tokens0, tokens1, scale0, scale1) ==
    IF liquidityRegion(sPrice, sLow, sHigh) = "below-range"
    THEN Div(tokens0, Div(Div(Div(Sub(sHigh, sLow), sHigh), sLow), scale0))
    ELSE IF liquidityRegion(sPrice, sLow, sHigh) = "in-range"
    THEN IF sPrice = sHigh /\ tokens0 = Zero
         THEN NaN
         ELSE MathMin(Div(tokens1, Div(Sub(sPrice, sLow), scale1)),
                      Div(tokens0,
                          Div(Div(Div(Sub(sHigh, sPrice), sHigh), sPrice), scale1)))
    ELSE Div(tokens1, Div(Sub(sHigh, sLow), scale0))

liquidityForLowHigh(sPrice, lowHigh, tokens0, tokens1, scale0, scale1) ==
    liquidityForRoots(sPrice, MathMin(lowHigh[1], lowHigh[2]),
                      MathMax(lowHigh[1], lowHigh[2]), tokens0, tokens1, scale0, scale1)

liquidityForScale(p, price, low, high, tokens0, tokens1, scale) ==
    liquidityForLowHigh(MathSqrt(Mul(price, scale)),
                        << MathSqrt(Mul(low, scale)), MathSqrt(Mul(high, scale)) >>,
                        tokens0, tokens1,
                        Pow10(p.token0Decimals), Pow10(p.token1Decimals))

liquidityForStrategy(p, price, low, high, tokens0, tokens1) ==
    liquidityForScale(p, price, low, high, tokens0, tokens1,
                      Pow10(p.token0Decimals - p.token1Decimals))

\* The position with usdcAmount, btcAmount, liquidityAmount and
\* lpSharePercentage recomputed.
\* this.lpSharePercentage = this.liquidityAmount / this.totalPoolLiquidity
withLpShare(q) ==
    [q EXCEPT !.lpSharePercentage = Div(q.liquidityAmount, q.totalPoolLiquidity)]

\* The full-range branch: half the investment in each token.
allocateFullRange(p, price, btc, usdInToken0) ==
    [p EXCEPT !.usdcAmount = usdInToken0,
              !.btcAmount = btc,
              !.liquidityAmount =
                  liquidityForStrategy(p, price, Mul(price, Rat(1, 100)),
                                       Mul(price, Num(100)), btc, usdInToken0)]

\* The percentage branch: [this.btcAmount, this.usdcAmount] = amounts.
allocateInRange(p, price, amounts) ==
    [p EXCEPT !.btcAmount = amounts[1],
              !.usdcAmount = amounts[2],
              !.liquidityAmount =
                  liquidityForStrategy(p, price, p.positionRange.priceLower,
                                       p.positionRange.priceUpper,
                                       amounts[1], amounts[2])]

calculateTokensAndLiquidity(p, investment, price) ==
    withLpShare(
        IF p.positionType = "full-range"
        THEN allocateFullRange(p, price, Div(Div(investment, Num(2)), price),
                               Div(investment, Num(2)))
        ELSE allocateInRange(p, price,
                             tokensForStrategy(p.positionRange.priceLower,
                                               p.positionRange.priceUpper,
                                               investment, price,
                                               p.token0Decimals - p.token1Decimals)))

\* Number.MAX_VALUE, the initial minPortfolioValue: above every value reached.
MAX_VALUE == Infinity

\* new LiquidUnitPosition(...)
constructor(initialAmount, positionType, initialTick, initialTvl, initialToken0Price, initialToken1Price, totalPoolLiquidity, token0Symbol, token1Symbol, granularityType, tickSpacing, token0Decimals, token1Decimals, useCompoundingAPR) ==
    LET fields ==
            [assetComposition |-> << token0Symbol, token1Symbol >>,
             initialAmount |-> initialAmount,
             currentPositionCapital |-> initialAmount,
             positionType |-> positionType,
             totalPoolLiquidity |-> totalPoolLiquidity,
             initialToken0Price |-> initialToken0Price,
             initialToken1Price |-> initialToken1Price,
             currentToken0Price |-> initialToken0Price,
             currentToken1Price |-> initialToken1Price,
             currentBtcPrice |->
                 IF IncludesBTC(token0Symbol) THEN initialToken0Price
                 ELSE IF IncludesBTC(token1Symbol) THEN initialToken1Price
                 ELSE initialToken0Price,
             tickSpacing |-> tickSpacing,
             currentTick |-> initialTick,
             token0Decimals |-> token0Decimals,
             token1Decimals |-> token1Decimals,
             token0Symbol |-> token0Symbol,
             token1Symbol |-> token1Symbol,
             useCompoundingAPR |-> useCompoundingAPR,
             poolTVL |-> initialTvl,
             granularityType |-> granularityType,
             \* field initialisers
             cumulativeFees |-> Zero,
             dataPointsInRange |-> 0,
             totalDataPoints |-> 0,
             rebalanceCount |-> 0,
             totalGasCosts |-> Zero,
             lastRebalanceDataPoint |-> 0,
             currentWasRebalanced |-> FALSE,
             currentPositionDataPoints |-> 0,
             currentPositionFees |-> Zero,
             currentTimestamp |-> 0,
             positionResults |-> << >>,
             usdcAmount |-> Zero,
             btcAmount |-> Zero,
             liquidityAmount |-> Zero,
             maxPortfolioValue |-> Zero,
             minPortfolioValue |-> MAX_VALUE,
             previousFeeGrowth0X128 |-> 0,
             previousFeeGrowth1X128 |-> 0,
             lpSharePercentage |-> Zero,
             positionRange |-> [tickLower |-> 0, tickUpper |-> 0, priceLower |-> Zero,
                                priceUpper |-> Zero, rangeWidth |-> Zero]]
        ranged == [fields EXCEPT !.positionRange =
                       getPositionTickRange(fields, initialTick, positionType, tickSpacing)]
    IN  calculateTokensAndLiquidity(ranged, initialAmount, initialToken0Price)

----------------------------------------------------------------------------
(* FeeAccrualEngine                                                         *)

isPositionActive_Exclusive(p, currentTick) ==
    currentTick > p.positionRange.tickLower /\ currentTick < p.positionRange.tickUpper
isPositionActive(p, currentTick) ==
    currentTick >= p.positionRange.tickLower /\ currentTick <= p.positionRange.tickUpper

isOutOfRange(p, currentTick) == ~isPositionActive(p, currentTick)

\* isNaN(ratio) || !ratio ? 0 : ratio
orZero(ratio) == IF ratio = Zero THEN Zero ELSE ratio

\* The percentage from the candle's two ticks and the range's two ticks.
activeLiquidityForTicks(lowTick, highTick, minTick, maxTick) ==
    orZero(IF highTick > minTick /\ lowTick < maxTick
           THEN Mul(IF highTick - lowTick # 0
                    THEN Rat(IntMin(maxTick, highTick) - IntMax(minTick, lowTick),
                             IF highTick - lowTick # 0 THEN highTick - lowTick ELSE 1)
                    ELSE Num(1),
                    Num(100))
           ELSE Zero)

\* The percentage from the candle's parsed low and high.
activeLiquidityForLowHigh_AllWhenDegenerate(p, low, high) ==
    IF ~isFinite(low) \/ ~isFinite(high) \/ Le(low.v, Zero) \/ Le(high.v, Zero)
    THEN Num(100)
    ELSE activeLiquidityForTicks(getTickFromPrice(p, low.v), getTickFromPrice(p, high.v),
                                 p.positionRange.tickLower, p.positionRange.tickUpper)
activeLiquidityForLowHigh(p, low, high) ==
    IF ~isFinite(low) \/ ~isFinite(high) \/ Le(low.v, Zero) \/ Le(high.v, Zero)
    THEN Zero
    ELSE activeLiquidityForTicks(getTickFromPrice(p, low.v), getTickFromPrice(p, high.v),
                                 p.positionRange.tickLower, p.positionRange.tickUpper)

\* The active-liquidity percentage of one candle, a number in 0..100.
calculateActiveLiquidityForCandle_AlwaysFromCandle(p, dataPoint) ==
    activeLiquidityForLowHigh(
        p, parseFloat(OrText(dataPoint.low, dataPoint.token0Price)),
        parseFloat(OrText(dataPoint.high, dataPoint.token0Price)))
calculateActiveLiquidityForCandle(p, dataPoint) ==
    IF p.positionType = "full-range" THEN Num(100)
    ELSE activeLiquidityForLowHigh(
             p, parseFloat(OrText(dataPoint.low, dataPoint.token0Price)),
             parseFloat(OrText(dataPoint.high, dataPoint.token0Price)))

\* if (this.totalDataPoints === 1): the snapshot is the first ever observed.
isFirstSnapshot_Never(p) == FALSE
isFirstSnapshot(p) == p.totalDataPoints = 1

\* The fees of one in-range snapshot from the two accumulators read.
feesFromGrowth(p, currentFeeGrowth0, currentFeeGrowth1, activeLiquidityPercent) ==
    Add(Div(Mul(Mul(Div(Num(currentFeeGrowth0 - p.previousFeeGrowth0X128),
                        Pow10(p.token0Decimals)),
                    p.liquidityAmount),
                activeLiquidityPercent),
            Num(100)),
        Mul(Div(Mul(Mul(Div(Num(currentFeeGrowth1 - p.previousFeeGrowth1X128),
                            Pow10(p.token1Decimals)),
                        p.liquidityAmount),
                    activeLiquidityPercent),
                Num(100)),
            p.currentToken0Price))

\* The outcome of one call: threw (BigInt() raised before anything was
\* assigned), else the fees returned and the position with the new baseline.
calculateFeesUsingSimplifiedMethod(p, dataPoint, activeLiquidityPercent) ==
    IF BigIntThrows(dataPoint.feeGrowthGlobal0X128)
       \/ BigIntThrows(dataPoint.feeGrowthGlobal1X128)
    THEN [threw |-> TRUE, fees |-> Zero, p |-> p]
    ELSE [threw |-> FALSE,
          fees |-> IF isFirstSnapshot(p) THEN Zero
                   ELSE feesFromGrowth(p, BigInt(dataPoint.feeGrowthGlobal0X128),
                                       BigInt(dataPoint.feeGrowthGlobal1X128),
                                       activeLiquidityPercent),
          p |-> [p EXCEPT
                   !.previousFeeGrowth0X128 = BigInt(dataPoint.feeGrowthGlobal0X128),
                   !.previousFeeGrowth1X128 = BigInt(dataPoint.feeGrowthGlobal1X128)]]

----------------------------------------------------------------------------
(* PositionLifecycle                                                        *)

getCurrentPositionValue(p) ==
    LET usdcValueInUsd == p.usdcAmount
        btcValueInUsd == Mul(p.btcAmount, p.currentBtcPrice)
    IN  Add(usdcValueInUsd, btcValueInUsd)

\* const isInRange = !this.isOutOfRange(this.currentTick) && !wasRebalanced
isInRangeNow_IgnoringFlag(p, wasRebalanced) == ~isOutOfRange(p, p.currentTick)
isInRangeNow(p, wasRebalanced) == ~isOutOfRange(p, p.currentTick) /\ ~wasRebalanced

\* The head of update(): the counters and the snapshot's tick, prices and time.
observe(p, dataPoint, wasRebalanced) ==
    [p EXCEPT
       !.totalDataPoints = @ + 1,
       !.currentPositionDataPoints = @ + 1,
       !.currentWasRebalanced = wasRebalanced,
       !.currentTick = dataPoint.tick,
       !.currentToken0Price = parseFloat(dataPoint.token0Price).v,
       !.currentToken1Price = parseFloat(dataPoint.token1Price).v,
       !.currentBtcPrice =
           IF IncludesBTC(p.token0Symbol)
           THEN parseFloat(dataPoint.token0Price).v
           ELSE IF IncludesBTC(p.token1Symbol)
           THEN parseFloat(dataPoint.token1Price).v
           ELSE parseFloat(dataPoint.token0Price).v,
       !.currentTimestamp =
           IF p.granularityType = "daily" THEN dataPoint.date
           ELSE dataPoint.periodStartUnix * 1000]

\* The tail of update(): the drawdown extremes, from totalValue.
trackExtremes_FromTheStart(p, totalValue) ==
    [p EXCEPT !.maxPortfolioValue = MathMax(@, totalValue),
              !.minPortfolioValue = MathMin(@, totalValue)]
trackExtremes(p, totalValue) ==
    [p EXCEPT
       !.maxPortfolioValue = MathMax(@, totalValue),
       !.minPortfolioValue =
           IF Gt(MathMax(p.maxPortfolioValue, totalValue), p.initialAmount)
           THEN MathMin(@, totalValue)
           ELSE @]

\* this.cumulativeFees += dataPointFees; this.currentPositionFees += dataPointFees
addFees_RunningTotalOnly(p, dataPointFees) ==
    [p EXCEPT !.cumulativeFees = Add(@, dataPointFees)]
addFees(p, dataPointFees) ==
    [p EXCEPT !.cumulativeFees = Add(@, dataPointFees),
              !.currentPositionFees = Add(@, dataPointFees)]

\* update() after the fee computation: the fees are added and the extremes
\* tracked.
finishUpdate_CompoundingFees(p, dataPointFees, activeLiquidityPercent, caught) ==
    [p |-> trackExtremes([p EXCEPT !.currentPositionCapital = Add(@, dataPointFees)],
                         Add(getCurrentPositionValue(p), p.cumulativeFees)),
     ret |-> dataPointFees, active |-> activeLiquidityPercent, caught |-> caught]
finishUpdate(p, dataPointFees, activeLiquidityPercent, caught) ==
    [p |-> trackExtremes(p, Add(getCurrentPositionValue(p), p.cumulativeFees)),
     ret |-> dataPointFees, active |-> activeLiquidityPercent, caught |-> caught]

\* The if (isInRange) block, from the outcome of the fee computation.
afterFees(p, isInRange, activeLiquidityPercent, call) ==
    IF isInRange /\ ~call.threw
    THEN finishUpdate(addFees(call.p, call.fees), call.fees, activeLiquidityPercent, FALSE)
    ELSE finishUpdate(addFees(p, Zero), Zero, activeLiquidityPercent, isInRange)

\* this.dataPointsInRange++ and the try block.
computeFees(p, dataPoint, isInRange, activeLiquidityPercent) ==
    afterFees(p, isInRange, activeLiquidityPercent,
              calculateFeesUsingSimplifiedMethod(p, dataPoint, activeLiquidityPercent))

countInRange(p, isInRange) ==
    IF isInRange THEN [p EXCEPT !.dataPointsInRange = @ + 1] ELSE p

\* update() from the position with the snapshot observed.
updateObserved(p, dataPoint, wasRebalanced) ==
    computeFees(countInRange(p, isInRangeNow(p, wasRebalanced)), dataPoint,
                isInRangeNow(p, wasRebalanced),
                calculateActiveLiquidityForCandle(p, dataPoint))

\* update(dataPoint, wasRebalanced): the position after the call, the fees
\* returned, and two locals of the call: the active-liquidity percentage and
\* whether the catch block ran.
update(p, dataPoint, wasRebalanced) ==
    updateObserved(observe(p, dataPoint, wasRebalanced), dataPoint, wasRebalanced)

\* The first half of rebalance(): the sub-position that ends is recorded, if
\* it saw any data point, and its fees are folded into the capital.
hasDataPoints_Always(p) == TRUE
hasDataPoints(p) == p.currentPositionDataPoints > 0

closeSubPosition_KeepingOnlyLast(p, gasCost) ==
    [p EXCEPT !.positionResults =
                  IF p.currentPositionDataPoints > 0
                  THEN << [duration |-> p.currentPositionDataPoints,
                           fees |-> p.currentPositionFees,
                           gasCost |-> gasCost,
                           startingCapital |-> p.currentPositionCapital] >>
                  ELSE @,
              !.currentPositionCapital = Add(@, p.currentPositionFees)]
closeSubPosition(p, gasCost) ==
    LET p1 == IF hasDataPoints(p)
              THEN [p EXCEPT !.positionResults =
                        Append(@, [duration |-> p.currentPositionDataPoints,
                                   fees |-> p.currentPositionFees,
                                   gasCost |-> gasCost,
                                   startingCapital |-> p.currentPositionCapital])]
              ELSE p
    IN  [p1 EXCEPT !.currentPositionCapital = Add(@, p1.currentPositionFees)]

\* this.totalGasCosts += gasCost; this.rebalanceCount++;
\* this.lastRebalanceDataPoint = this.totalDataPoints
countRebalance_WithoutGas(p, gasCost) ==
    [p EXCEPT !.rebalanceCount = @ + 1,
              !.lastRebalanceDataPoint = p.totalDataPoints]
countRebalance(p, gasCost) ==
    [p EXCEPT !.totalGasCosts = Add(@, gasCost),
              !.rebalanceCount = @ + 1,
              !.lastRebalanceDataPoint = p.totalDataPoints]

\* this.calculateTokensAndLiquidity(this.currentPositionCapital, this.currentToken0Price)
allocateCapital(p) ==
    calculateTokensAndLiquidity(p, p.currentPositionCapital, p.currentToken0Price)

\* this.positionRange = this.getPositionTickRange(...)
moveRange(p, currentTick) ==
    [p EXCEPT !.positionRange =
        getPositionTickRange(p, currentTick, p.positionType, p.tickSpacing)]

\* The if (!isClosing) block of rebalance(): a new range around the current
\* price and a new allocation of the capital.
openSubPosition(p, currentTick, gasCost) ==
    countRebalance(
        allocateCapital(
            moveRange([p EXCEPT !.initialToken0Price = p.currentToken0Price],
                      currentTick)),
        gasCost)

\* this.currentPositionDataPoints = 0; this.currentPositionFees = 0
resetSubPosition(p) ==
    [p EXCEPT !.currentPositionDataPoints = 0, !.currentPositionFees = Zero]

rebalance_AllocatingOnClose(p, currentTick, currentTvl, gasCost, isClosing) ==
    resetSubPosition(openSubPosition(closeSubPosition(p, gasCost), currentTick, gasCost))
rebalance(p, currentTick, currentTvl, gasCost, isClosing) ==
    resetSubPosition(IF ~isClosing
                     THEN openSubPosition(closeSubPosition(p, gasCost), currentTick, gasCost)
                     ELSE closeSubPosition(p, gasCost))

\* 365 data points a year for daily data, 8760 for hourly.
PeriodsPerYear(p) == IF p.granularityType = "daily" THEN 365 ELSE 8760

getRunningAPR(p) ==
    IF p.totalDataPoints = 0 THEN Zero
    ELSE LET netFees == Sub(p.cumulativeFees, p.totalGasCosts)
         IN  Mul(Mul(Div(netFees, p.initialAmount),
                     Rat(PeriodsPerYear(p), p.totalDataPoints)),
                 Num(100))

\* The loop of getWeightedPositionAPR over positions 1..i:
\* <<totalWeightedAPR, totalDataPoints>>.
RECURSIVE WeightedSum(_, _, _)
WeightedSum(p, allPositions, i) ==
    IF i = 0 THEN << Zero, 0 >>
    ELSE LET before == WeightedSum(p, allPositions, i - 1)
             position == allPositions[i]
             netFees == Sub(position.fees, position.gasCost)
             netAPR == Mul(Mul(Div(netFees, position.startingCapital),
                               Rat(PeriodsPerYear(p), position.duration)),
                           Num(100))
         IN  << Add(before[1], Mul(netAPR, Num(position.duration))),
                before[2] + position.duration >>

getWeightedPositionAPR(p) ==
    LET allPositions ==
            IF p.currentPositionDataPoints > 0
            THEN Append(p.positionResults,
                        [duration |-> p.currentPositionDataPoints,
                         fees |-> p.currentPositionFees,
                         gasCost |-> Zero,
                         startingCapital |->
                             Sub(p.currentPositionCapital, p.currentPositionFees)])
            ELSE p.positionResults
    IN  IF Len(allPositions) = 0 THEN Zero
        ELSE LET sums == WeightedSum(p, allPositions, Len(allPositions))
             IN  IF sums[2] > 0 THEN Div(sums[1], Num(sums[2])) ELSE Zero

getAPR(p) ==
    IF p.useCompoundingAPR /\ Len(p.positionResults) > 0
    THEN getWeightedPositionAPR(p)
    ELSE getRunningAPR(p)

----------------------------------------------------------------------------
(* The figures of currentStatus().                                          *)

\* const totalValue = currentPositionValue + totalFeesEarned
totalValue(p) == Add(getCurrentPositionValue(p), p.cumulativeFees)

\* The value now of the 50/50 split taken at initialToken0Price.
calculateHoldStrategyValue(p) ==
    Add(Mul(Div(Div(p.initialAmount, Num(2)), p.initialToken0Price),
            p.currentToken0Price),
        Div(p.initialAmount, Num(2)))

netGainVsHold(p) == Sub(totalValue(p), calculateHoldStrategyValue(p))

\* The drop from maxPortfolioValue to minPortfolioValue, in percent of the
\* former; 0 while maxPortfolioValue is not above initialAmount.
maxDrawdown(p) ==
    IF Gt(p.maxPortfolioValue, p.initialAmount)
    THEN Mul(Div(Sub(p.maxPortfolioValue, p.minPortfolioValue), p.maxPortfolioValue),
             Num(100))
    ELSE Zero

maxGain(p) ==
    Mul(Div(Sub(p.maxPortfolioValue, p.initialAmount), p.initialAmount), Num(100))

\* (2 * sqrt(r) / (1 + r) - 1) * 100 with r = currentBtcPrice / initialToken0Price
impermanentLossFor(priceRatio) ==
    Mul(Sub(Div(Mul(Num(2), MathSqrt(priceRatio)), Add(Num(1), priceRatio)), Num(1)),
        Num(100))

calculateImpermanentLoss(p, currentBtcPrice) ==
    impermanentLossFor(Div(currentBtcPrice, p.initialToken0Price))

\* impermanentLoss: this.calculateImpermanentLoss(this.currentBtcPrice)
impermanentLoss(p) == calculateImpermanentLoss(p, p.currentBtcPrice)

getTimeInRange(p) ==
    IF p.totalDataPoints = 0 THEN Zero
    ELSE Mul(Rat(p.dataPointsInRange, p.totalDataPoints), Num(100))

\* The notes of currentStatus(isLastDataPoint).
notes_RebalancedFirst(p, isLastDataPoint) ==
    IF p.currentWasRebalanced THEN "Rebalanced"
    ELSE IF p.totalDataPoints = 1 THEN "Start"
    ELSE IF isLastDataPoint THEN "End"
    ELSE ""
notes(p, isLastDataPoint) ==
    IF p.totalDataPoints = 1 THEN "Start"
    ELSE IF p.currentWasRebalanced THEN "Rebalanced"
    ELSE IF isLastDataPoint THEN "End"
    ELSE ""

\* get completedPositions(): a copy of the history.
completedPositions(p) == p.positionResults

----------------------------------------------------------------------------
(* The driver: one position, fed snapshots and rebalance calls.             *)

VARIABLES
    pos,      \* the LiquidUnitPosition instance
    last,     \* the call made last: its name, arguments, result and locals
    closed,   \* history: a rebalance(..., isClosing = true) has been made
    calls     \* history: the number of rebalance() calls made

vars == << pos, last, closed, calls >>

MaxDataPoints == 3      \* update() calls in a run
MaxRebalances == 2      \* rebalance() calls in a run

InitialAmount == Num(38)
TotalPoolLiquidity == Num(1000)
InitialTvl == Num(5000)
TickSpacing == 60
Token0Decimals == 0
Token1Decimals == 0

PositionTypes == {"full-range", "192%"}

\* The prices of the data series a position of each type is run on.
Prices(positionType) ==
    IF positionType = "full-range" THEN {Num(25), Num(100)}
    ELSE {Rat(1225, 4), Num(1225)}

\* The tick the pool reports at a price (the data feed's tick field).
PoolTick(price) == LogBase10001(Div(Num(1), price))

DataPoint(n, price, low, high, feeGrowth0, feeGrowth1) ==
    [date |-> n, periodStartUnix |-> n,
     tick |-> PoolTick(price),
     token0Price |-> FloatText(price),
     token1Price |-> FloatText(Div(Num(1), price)),
     low |-> low, high |-> high,
     feeGrowthGlobal0X128 |-> feeGrowth0,
     feeGrowthGlobal1X128 |-> feeGrowth1]

NoDataPoint == DataPoint(0, Num(25), EmptyText, EmptyText, BigIntText(0), BigIntText(0))

\* The two accumulators of a snapshot.
FeeGrowthPairs ==
    {<< BigIntText(1), BigIntText(1) >>, << BigIntText(3), BigIntText(1) >>,
     << BadBigIntText, BigIntText(1) >>}

\* The low and high of a snapshot.
Candles == {<< EmptyText, EmptyText >>}

GasCosts == {Num(1)}

NoCall == [name |-> "new", dataPoint |-> NoDataPoint, wasRebalanced |-> FALSE,
           ret |-> Zero, active |-> Zero, caught |-> FALSE,
           currentTick |-> 0, gasCost |-> Zero, isClosing |-> FALSE]

\* The caller passes wasRebalanced = true for the snapshot it has just
\* rebalanced on, false for any other.
WasRebalanced == IF last.name = "rebalance" THEN BOOLEAN ELSE {FALSE}

Init ==
    /\ \E positionType \in PositionTypes : \E price \in Prices(positionType) :
          pos = constructor(InitialAmount, positionType, PoolTick(price), InitialTvl,
                            price, Div(Num(1), price), TotalPoolLiquidity,
                            "cbBTC", "USDC", "daily", TickSpacing,
                            Token0Decimals, Token1Decimals, TRUE)
    /\ last = NoCall
    /\ closed = FALSE
    /\ calls = 0

\* The state after an update() call that came out as out.
UpdatedTo(dataPoint, wasRebalanced, out) ==
    /\ pos' = out.p
    /\ last' = [NoCall EXCEPT !.name = "update", !.dataPoint = dataPoint,
                              !.wasRebalanced = wasRebalanced,
                              !.ret = out.ret, !.active = out.active,
                              !.caught = out.caught]

\* pos.update(dataPoint, wasRebalanced)
Updated(dataPoint, wasRebalanced) ==
    UpdatedTo(dataPoint, wasRebalanced, update(pos, dataPoint, wasRebalanced))

Update ==
    /\ pos.totalDataPoints < MaxDataPoints
    /\ \E price \in Prices(pos.positionType), candle \in Candles, fg \in FeeGrowthPairs,
          wasRebalanced \in WasRebalanced :
          Updated(DataPoint(pos.totalDataPoints + 1, price, candle[1], candle[2],
                            fg[1], fg[2]),
                  wasRebalanced)
    /\ UNCHANGED << closed, calls >>

Rebalance ==
    /\ calls < MaxRebalances
    /\ calls' = calls + 1
    /\ \E gasCost \in GasCosts, isClosing \in BOOLEAN :
          /\ pos' = rebalance(pos, pos.currentTick, InitialTvl, gasCost, isClosing)
          /\ last' = [NoCall EXCEPT !.name = "rebalance",
                                    !.currentTick = pos.currentTick,
                                    !.gasCost = gasCost, !.isClosing = isClosing]
          /\ closed' = (closed \/ isClosing)

Next == Update \/ Rebalance

Spec == Init /\ [][Next]_vars

----------------------------------------------------------------------------
(* A second driver: a position of either type and either token order, fed  *)
(* candles with a low and a high, no rebalance.                             *)

\* The <<low, high>> of the candles a snapshot at a price may carry: of a
\* percentage-range pool, and of a full-range pool, whose candles may also
\* spell zero or Infinity.
CandlesAt(price) ==
    IF price \in Prices("full-range")
    THEN {<< EmptyText, EmptyText >>, << NaNText, EmptyText >>,
          << FloatText(Zero), FloatText(Zero) >>,
          << InfinityText, InfinityText >>,
          << FloatText(Num(25)), FloatText(Num(100)) >>}
    ELSE {<< EmptyText, EmptyText >>, << NaNText, EmptyText >>,
          << FloatText(Zero), FloatText(Num(1225)) >>,
          << FloatText(Neg(Num(1))), FloatText(Num(1225)) >>,
          << FloatText(Rat(1225, 4)), InfinityText >>,
          << FloatText(Rat(1225, 4)), FloatText(Num(1225)) >>}
         \cup (IF price = Num(1225)
               THEN {<< FloatText(Num(1225)), FloatText(Num(1225)) >>}
               ELSE {<< FloatText(Rat(49, 4)), FloatText(Rat(1225, 4)) >>})

\* The two orders of the pair: the BTC asset as token0, and as token1.
SymbolPairs == {<< "cbBTC", "USDC" >>, << "USDC", "cbBTC" >>}

InitCandle ==
    /\ \E positionType \in PositionTypes : \E price \in Prices(positionType) :
       \E symbols \in SymbolPairs :
          pos = constructor(InitialAmount, positionType, PoolTick(price), InitialTvl,
                            price, Div(Num(1), price), TotalPoolLiquidity,
                            symbols[1], symbols[2], "daily", TickSpacing,
                            Token0Decimals, Token1Decimals, TRUE)
    /\ last = NoCall
    /\ closed = FALSE
    /\ calls = 0

UpdateCandle ==
    /\ pos.totalDataPoints < MaxDataPoints
    /\ \E price \in Prices(pos.positionType) :
       \E candle \in CandlesAt(price), fg \in {1, 3} :
          Updated(DataPoint(pos.totalDataPoints + 1, price, candle[1], candle[2],
                            BigIntText(fg), BigIntText(1)),
                  FALSE)
    /\ UNCHANGED << closed, calls >>

SpecCandle == InitCandle /\ [][UpdateCandle]_vars

----------------------------------------------------------------------------
(* A third driver: single calls of the class's pure methods on a position   *)
(* as constructed, with the arguments and the value returned kept in last.  *)

MaxTickOffset == 2      \* how far from a range bound a tick is taken

\* The ticks at and around the two bounds of the range.
TicksAround(p) ==
    {p.positionRange.tickLower + d : d \in (-MaxTickOffset)..MaxTickOffset}
    \cup {p.positionRange.tickUpper + d : d \in (-MaxTickOffset)..MaxTickOffset}

\* Arguments of tokensForStrategy: a range [4, 16] or [4, 25], prices below,
\* at, inside and above it, all with rational square roots.
RangePrices == {Num(1), Num(4), Num(9), Num(16), Num(25), Num(36)}
RangeBounds == {<< Num(4), Num(16) >>, << Num(4), Num(25) >>}
Investments == {Num(38), Num(100)}
Decimals == {0, 2}

InitPure == Init

\* pos.isOutOfRange(currentTick)
IsOutOfRange ==
    /\ \E currentTick \in TicksAround(pos) :
          last' = [name |-> "isOutOfRange", currentTick |-> currentTick,
                   ret |-> isOutOfRange(pos, currentTick)]
    /\ UNCHANGED << pos, closed, calls >>

\* pos.tokensForStrategy(minRange, maxRange, investment, price, decimal)
TokensForStrategy ==
    /\ \E bounds \in RangeBounds, investment \in Investments, price \in RangePrices,
          decimal \in Decimals :
          last' = [name |-> "tokensForStrategy", minRange |-> bounds[1],
                   maxRange |-> bounds[2], investment |-> investment,
                   price |-> price, decimal |-> decimal,
                   ret |-> tokensForStrategy(bounds[1], bounds[2], investment,
                                             price, decimal)]
    /\ UNCHANGED << pos, closed, calls >>

\* The call of liquidityForStrategy that calculateTokensAndLiquidity makes on
\* the tokens tokensForStrategy returned for the same price and bounds.
LiquidityFor(bounds, investment, price, tokens) ==
    last' = [name |-> "liquidityForStrategy", price |-> price,
             low |-> bounds[1], high |-> bounds[2],
             tokens0 |-> tokens[1], tokens1 |-> tokens[2],
             ret |-> liquidityForStrategy(pos, price, bounds[1], bounds[2],
                                          tokens[1], tokens[2])]

\* pos.liquidityForStrategy(price, low, high, tokens0, tokens1)
LiquidityForStrategy ==
    /\ \E bounds \in RangeBounds, investment \in Investments, price \in RangePrices :
          LiquidityFor(bounds, investment, price,
                       tokensForStrategy(bounds[1], bounds[2], investment, price,
                                         pos.token0Decimals - pos.token1Decimals))
    /\ UNCHANGED << pos, closed, calls >>

\* The position types a range is asked for: the two of the other drivers and
\* a width above 200%, whose lower price is negative.
RangeTypes == {"full-range", "192%", "300%"}

\* pos.getPositionTickRange(currentTick, positionType, tickSpacing)
GetPositionTickRange ==
    /\ \E positionType \in RangeTypes :
          last' = [name |-> "getPositionTickRange", positionType |-> positionType,
                   ret |-> getPositionTickRange(pos, pos.currentTick, positionType,
                                                pos.tickSpacing)]
    /\ UNCHANGED << pos, closed, calls >>

NextPure ==
    IsOutOfRange \/ TokensForStrategy \/ GetPositionTickRange \/ LiquidityForStrategy

SpecPure == InitPure /\ [][NextPure]_vars

----------------------------------------------------------------------------
(* A fourth driver: two positions, one of each type, with update() and      *)
(* rebalance() calls on either in any order. The file declares no variable  *)
(* at module level and the class no static field, so all there is to share  *)
(* is what the instances refer to: pos holds the instances and the arrays   *)
(* they refer to, an instance's positionResults being the address of one.   *)

Instances == {1, 2}

\* positionResults = []: an instance field with an initialiser, which runs at
\* every construction and makes an array of the instance's own.
newArray_OneForTheClass(arrays) ==
    [address |-> 1, arrays |-> IF Len(arrays) = 0 THEN << << >> >> ELSE arrays]
newArray(arrays) ==
    [address |-> Len(arrays) + 1, arrays |-> Append(arrays, << >>)]

\* new LiquidUnitPosition(...): the field initialisers, then the constructor
\* body, whose outcome is p.
new(world, p) ==
    [instances |-> Append(world.instances,
                          [p EXCEPT !.positionResults = newArray(world.arrays).address]),
     arrays |-> newArray(world.arrays).arrays]

\* this, as the methods of instance i read it: this.positionResults is read
\* through the reference.
this(world, i) ==
    [world.instances[i] EXCEPT !.positionResults = world.arrays[@]]

\* A method call on instance i that leaves it as p: the fields are written to
\* this, and positionResults, which no method assigns, is written in place
\* (push) in the array it refers to.
callOn(world, i, p) ==
    [instances |-> [world.instances EXCEPT
                      ![i] = [p EXCEPT !.positionResults =
                                           world.instances[i].positionResults]],
     arrays |-> [world.arrays EXCEPT
                   ![world.instances[i].positionResults] = p.positionResults]]

InitTwo ==
    /\ \E price1 \in Prices("192%"), price2 \in Prices("full-range") :
          pos = new(new([instances |-> << >>, arrays |-> << >>],
                        constructor(InitialAmount, "192%", PoolTick(price1), InitialTvl,
                                    price1, Div(Num(1), price1), TotalPoolLiquidity,
                                    "cbBTC", "USDC", "daily", TickSpacing,
                                    Token0Decimals, Token1Decimals, TRUE)),
                    constructor(InitialAmount, "full-range", PoolTick(price2),
                                InitialTvl, price2, Div(Num(1), price2),
                                TotalPoolLiquidity, "cbBTC", "USDC", "daily",
                                TickSpacing, Token0Decimals, Token1Decimals, TRUE))
    /\ last = [instance |-> 0, name |-> "new"]
    /\ closed = FALSE
    /\ calls = 0

\* instance i .update(dataPoint), the accumulator of token0 growing by 2 a
\* snapshot
UpdateOf(i) ==
    /\ this(pos, 1).totalDataPoints + this(pos, 2).totalDataPoints < MaxDataPoints
    /\ \E price \in Prices(this(pos, i).positionType) :
          pos' = callOn(pos, i,
                        update(this(pos, i),
                               DataPoint(this(pos, i).totalDataPoints + 1, price,
                                         EmptyText, EmptyText,
                                         BigIntText(2 * this(pos, i).totalDataPoints + 1),
                                         BigIntText(1)),
                               FALSE).p)
    /\ last' = [instance |-> i, name |-> "update"]
    /\ UNCHANGED << closed, calls >>

\* instance i .rebalance(currentTick, currentTvl, gasCost, isClosing)
RebalanceOf(i) ==
    /\ calls < MaxRebalances
    /\ calls' = calls + 1
    /\ \E gasCost \in GasCosts, isClosing \in BOOLEAN :
          /\ pos' = callOn(pos, i,
                           rebalance(this(pos, i), this(pos, i).currentTick, InitialTvl,
                                     gasCost, isClosing))
          /\ closed' = (closed \/ isClosing)
    /\ last' = [instance |-> i, name |-> "rebalance"]

NextTwo == \E i \in Instances : UpdateOf(i) \/ RebalanceOf(i)

SpecTwo == InitTwo /\ [][NextTwo]_vars

----------------------------------------------------------------------------
(* A fifth driver: one position whose caller rebalances to the tick of any  *)
(* snapshot of the pool, the one last fed to update() or the one to come.   *)

\* pos.update(dataPoint, wasRebalanced), the accumulator of token0 growing by
\* 2 a snapshot
UpdateNext ==
    /\ pos.totalDataPoints < MaxDataPoints
    /\ \E price \in Prices(pos.positionType), wasRebalanced \in WasRebalanced :
          Updated(DataPoint(pos.totalDataPoints + 1, price, EmptyText, EmptyText,
                            BigIntText(2 * pos.totalDataPoints + 1), BigIntText(1)),
                  wasRebalanced)
    /\ UNCHANGED << closed, calls >>

\* pos.rebalance(currentTick, currentTvl, gasCost, isClosing)
RebalanceTo ==
    /\ calls < MaxRebalances
    /\ calls' = calls + 1
    /\ \E price \in Prices(pos.positionType), gasCost \in GasCosts,
          isClosing \in BOOLEAN :
          /\ pos' = rebalance(pos, PoolTick(price), InitialTvl, gasCost, isClosing)
          /\ last' = [NoCall EXCEPT !.name = "rebalance",
                                    !.currentTick = PoolTick(price),
                                    !.gasCost = gasCost, !.isClosing = isClosing]
          /\ closed' = (closed \/ isClosing)

NextTick == UpdateNext \/ RebalanceTo

SpecTick == Init /\ [][NextTick]_vars

----------------------------------------------------------------------------
(* A sixth driver: one position in a pool whose price never moves: every    *)
(* snapshot carries the price of construction.                              *)

\* pos.update(dataPoint, wasRebalanced) at the price of construction
UpdateFlat ==
    /\ pos.totalDataPoints < MaxDataPoints
    /\ \E fg \in FeeGrowthPairs, wasRebalanced \in WasRebalanced :
          Updated(DataPoint(pos.totalDataPoints + 1, pos.currentToken0Price,
                            EmptyText, EmptyText, fg[1], fg[2]),
                  wasRebalanced)
    /\ UNCHANGED << closed, calls >>

NextFlat == UpdateFlat \/ Rebalance

SpecFlat == Init /\ [][NextFlat]_vars

----------------------------------------------------------------------------
(* Properties of update(): skipped steps, the first snapshot, the baseline. *)

\* C1, as the specification states it: after every update() call, the calls
\* that skip the fee computation included, the retained baseline equals the
\* two accumulators of the snapshot just processed.
C1_BaselineFollowsSnapshot ==
    (/\ last.name = "update"
     /\ last.dataPoint.feeGrowthGlobal0X128.k = "int"
     /\ last.dataPoint.feeGrowthGlobal1X128.k = "int")
    => /\ pos.previousFeeGrowth0X128 = last.dataPoint.feeGrowthGlobal0X128.v
       /\ pos.previousFeeGrowth1X128 = last.dataPoint.feeGrowthGlobal1X128.v

\* C2: an update() whose tick is outside [tickLower, tickUpper] or whose
\* wasRebalanced flag is set returns 0, runs no catch block, and leaves
\* cumulativeFees and currentPositionFees as they were.
C2_SkippedStepAccruesNothing ==
    [][(/\ last'.name = "update"
        /\ \/ pos'.currentTick < pos'.positionRange.tickLower
           \/ pos'.currentTick > pos'.positionRange.tickUpper
           \/ last'.wasRebalanced)
       => /\ last'.ret = Zero
          /\ ~last'.caught
          /\ pos'.cumulativeFees = pos.cumulativeFees
          /\ pos'.currentPositionFees = pos.currentPositionFees]_vars

\* An out-of-range update() on a position that holds fees, whose snapshot
\* carries accumulators other than the baseline.
C2_Witness ==
    /\ last.name = "update"
    /\ pos.currentTick < pos.positionRange.tickLower
    /\ Gt(pos.cumulativeFees, Zero)
    /\ last.dataPoint.feeGrowthGlobal0X128.k = "int"
    /\ last.dataPoint.feeGrowthGlobal0X128.v # pos.previousFeeGrowth0X128

\* C3: the first update() of a position returns 0 and leaves cumulativeFees
\* at 0, whatever the accumulators, the tick and the wasRebalanced flag.
C3_FirstSnapshotYieldsNoFees ==
    (last.name = "update" /\ pos.totalDataPoints = 1)
    => (last.ret = Zero /\ pos.cumulativeFees = Zero)

\* A first update() in range, fully active, with non-zero accumulators.
C3_Witness ==
    /\ last.name = "update"
    /\ pos.totalDataPoints = 1
    /\ pos.positionType = "192%"
    /\ pos.currentTick >= pos.positionRange.tickLower
    /\ pos.currentTick <= pos.positionRange.tickUpper
    /\ ~last.wasRebalanced
    /\ last.active = Num(100)
    /\ last.dataPoint.feeGrowthGlobal0X128 = BigIntText(3)
    /\ pos.previousFeeGrowth0X128 = 3

\* C4, as the specification states it: an update() whose snapshot carries
\* the two accumulators of the snapshot before it returns 0, whatever the
\* status of the earlier snapshot.
C4_SameAccumulatorsYieldNoFees ==
    [][(/\ last.name = "update"
        /\ last'.name = "update"
        /\ last'.dataPoint.feeGrowthGlobal0X128.k = "int"
        /\ last'.dataPoint.feeGrowthGlobal1X128.k = "int"
        /\ last'.dataPoint.feeGrowthGlobal0X128 = last.dataPoint.feeGrowthGlobal0X128
        /\ last'.dataPoint.feeGrowthGlobal1X128 = last.dataPoint.feeGrowthGlobal1X128)
       => last'.ret = Zero]_vars

\* C5: an update() in range whose snapshot carries a malformed accumulator
\* completes, returns 0 and leaves cumulativeFees, currentPositionFees and
\* the baseline as they were; the update() after it, in range on a
\* well-formed snapshot, runs no catch block and takes the snapshot's
\* accumulators as the baseline.
C5_MalformedSnapshotIsAbsorbed ==
    [][/\ (/\ last'.name = "update"
           /\ \/ last'.dataPoint.feeGrowthGlobal0X128.k # "int"
              \/ last'.dataPoint.feeGrowthGlobal1X128.k # "int")
          => /\ last'.ret = Zero
             /\ pos'.totalDataPoints = pos.totalDataPoints + 1
             /\ pos'.cumulativeFees = pos.cumulativeFees
             /\ pos'.currentPositionFees = pos.currentPositionFees
             /\ pos'.previousFeeGrowth0X128 = pos.previousFeeGrowth0X128
             /\ pos'.previousFeeGrowth1X128 = pos.previousFeeGrowth1X128
       /\ (/\ last.name = "update" /\ last.caught
           /\ last'.name = "update"
           /\ last'.dataPoint.feeGrowthGlobal0X128.k = "int"
           /\ last'.dataPoint.feeGrowthGlobal1X128.k = "int"
           /\ pos'.currentTick >= pos'.positionRange.tickLower
           /\ pos'.currentTick <= pos'.positionRange.tickUpper
           /\ ~last'.wasRebalanced)
          => /\ ~last'.caught
             /\ pos'.previousFeeGrowth0X128 = last'.dataPoint.feeGrowthGlobal0X128.v
             /\ pos'.previousFeeGrowth1X128 = last'.dataPoint.feeGrowthGlobal1X128.v]_vars

\* An update() whose catch block ran, on a position that holds fees and a
\* seeded baseline.
C5_Witness ==
    /\ last.name = "update"
    /\ last.caught
    /\ last.dataPoint.feeGrowthGlobal0X128 = BadBigIntText
    /\ Gt(pos.cumulativeFees, Zero)
    /\ pos.previousFeeGrowth0X128 = 3

----------------------------------------------------------------------------
(* Properties of rebalance(): the closing call.                             *)

\* C6, as the specification states it: every rebalance(..., isClosing =
\* true) appends exactly one record to positionResults.
C6_ClosingAppendsOneRecord ==
    [][(last'.name = "rebalance" /\ last'.isClosing)
       => Len(pos'.positionResults) = Len(pos.positionResults) + 1]_vars

\* C6, amended: a rebalance(..., isClosing = true) appends exactly one
\* record when update() has run since construction or the last rebalance,
\* and none otherwise; the records already there stay.
C6_ClosingAppendsOneRecordIfData ==
    [][(last'.name = "rebalance" /\ last'.isClosing)
       => /\ Len(pos'.positionResults) =
                Len(pos.positionResults)
                + (IF pos.currentPositionDataPoints > 0 THEN 1 ELSE 0)
          /\ SubSeq(pos'.positionResults, 1, Len(pos.positionResults))
                = pos.positionResults]_vars

\* The closing call is the only rebalance() made, after some update(), and
\* the history holds its one record.
C6_Witness ==
    /\ last.name = "rebalance"
    /\ last.isClosing
    /\ calls = 1
    /\ pos.totalDataPoints > 0
    /\ Len(pos.positionResults) = 1
    /\ pos.positionResults[1].duration = pos.totalDataPoints

\* C7: a rebalance(..., isClosing = true) leaves the token balances, the
\* liquidity, the LP share, the range, rebalanceCount and totalGasCosts as
\* they were.
C7_ClosingAllocatesNothing ==
    [][(last'.name = "rebalance" /\ last'.isClosing)
       => /\ pos'.usdcAmount = pos.usdcAmount
          /\ pos'.btcAmount = pos.btcAmount
          /\ pos'.liquidityAmount = pos.liquidityAmount
          /\ pos'.lpSharePercentage = pos.lpSharePercentage
          /\ pos'.positionRange = pos.positionRange
          /\ pos'.rebalanceCount = pos.rebalanceCount
          /\ pos'.totalGasCosts = pos.totalGasCosts]_vars

\* A closing call with a gas cost, made at a price other than the one the
\* position was allocated at, on a capital that has grown by fees.
C7_Witness ==
    /\ last.name = "rebalance"
    /\ last.isClosing
    /\ last.gasCost # Zero
    /\ pos.currentToken0Price # pos.initialToken0Price
    /\ Gt(pos.currentPositionCapital, pos.initialAmount)

\* C8, as the specification states it: after a rebalance(..., isClosing =
\* true) no call accrues fees, appends records, or changes the capital, the
\* rebalance counter, the gas costs, the balances or the range.
C8_ClosedIsTerminal ==
    [][closed
       => /\ pos'.cumulativeFees = pos.cumulativeFees
          /\ pos'.currentPositionFees = pos.currentPositionFees
          /\ pos'.positionResults = pos.positionResults
          /\ pos'.currentPositionCapital = pos.currentPositionCapital
          /\ pos'.rebalanceCount = pos.rebalanceCount
          /\ pos'.totalGasCosts = pos.totalGasCosts
          /\ pos'.usdcAmount = pos.usdcAmount
          /\ pos'.btcAmount = pos.btcAmount
          /\ pos'.liquidityAmount = pos.liquidityAmount
          /\ pos'.positionRange = pos.positionRange]_vars

----------------------------------------------------------------------------
(* Properties of the APR figures.                                           *)

\* C9, as the specification states it: after one or more update() calls and
\* no rebalance() call, getWeightedPositionAPR() equals getRunningAPR().
C9_WeightedEqualsRunningWithoutRebalance ==
    (calls = 0 /\ pos.totalDataPoints >= 1)
    => getWeightedPositionAPR(pos) = getRunningAPR(pos)

----------------------------------------------------------------------------
(* Properties of the active-liquidity percentage.                           *)

\* C10, as the specification states it: for a percentage-range position and
\* a candle with positive finite low <= high that spans more than one tick,
\* the active-liquidity percentage is 100 times the length of the overlap of
\* the candle's tick interval with [tickLower, tickUpper], over the length of
\* the candle's tick interval.
C10_ActiveFractionIsOverlapShare ==
    (/\ last.name = "update"
     /\ pos.positionType # "full-range"
     /\ last.dataPoint.low.k = "num"
     /\ last.dataPoint.high.k = "num"
     /\ Gt(last.dataPoint.low.v, Zero)
     /\ Lt(last.dataPoint.low.v, last.dataPoint.high.v))
    => LET lowTick == getTickFromPrice(pos, last.dataPoint.low.v)
           highTick == getTickFromPrice(pos, last.dataPoint.high.v)
           from == IntMin(lowTick, highTick)
           to == IntMax(lowTick, highTick)
           overlap == IntMax(0, IntMin(to, pos.positionRange.tickUpper)
                                - IntMax(from, pos.positionRange.tickLower))
       IN  last.active = Rat(100 * overlap, to - from)

\* C11: the active-liquidity percentage of a full-range position is 100 for
\* every snapshot, whatever its low and high spell (nothing, no number, zero
\* or Infinity), and the percentage of a percentage-range position is 0 when
\* the candle's tick interval lies wholly below tickLower or wholly above
\* tickUpper.
C11_NoOverlapIsZeroFullRangeIsAll ==
    /\ (last.name = "update" /\ pos.positionType = "full-range")
       => last.active = Num(100)
    /\ (/\ last.name = "update"
        /\ pos.positionType # "full-range"
        /\ last.dataPoint.low.k = "num"
        /\ last.dataPoint.high.k = "num"
        /\ Gt(last.dataPoint.low.v, Zero)
        /\ Gt(last.dataPoint.high.v, Zero)
        /\ \/ IntMax(getTickFromPrice(pos, last.dataPoint.low.v),
                      getTickFromPrice(pos, last.dataPoint.high.v))
                 < pos.positionRange.tickLower
           \/ IntMin(getTickFromPrice(pos, last.dataPoint.low.v),
                      getTickFromPrice(pos, last.dataPoint.high.v))
                 > pos.positionRange.tickUpper)
       => last.active = Zero

\* A full-range position has been fed a snapshot whose low is not a number.
C11_Witness ==
    /\ last.name = "update"
    /\ pos.positionType = "full-range"
    /\ last.dataPoint.low.k = "nan"
    /\ last.active = Num(100)


----------------------------------------------------------------------------
(* Properties of the range test and of the allocation.                      *)

\* C12: isOutOfRange(tick) is true for every tick above tickUpper and every
\* tick below tickLower, and false for every tick from tickLower to
\* tickUpper, the two bounds included.
C12_OutOfRangeIsOutsideClosedRange ==
    (last.name = "isOutOfRange")
    => /\ (last.currentTick > pos.positionRange.tickUpper) => (last.ret = TRUE)
       /\ (last.currentTick < pos.positionRange.tickLower) => (last.ret = TRUE)
       /\ (/\ last.currentTick >= pos.positionRange.tickLower
           /\ last.currentTick <= pos.positionRange.tickUpper) => (last.ret = FALSE)

\* isOutOfRange has been asked about the upper bound itself.
C12_Witness ==
    /\ last.name = "isOutOfRange"
    /\ last.currentTick = pos.positionRange.tickUpper
    /\ last.ret = FALSE

\* C13: tokensForStrategy returns two amounts, both above zero for a price
\* strictly between the bounds, amount1 = 0 for a price at or below the lower
\* bound, and amount0 = 0 for a price at or above the upper bound.
C13_AllocationFollowsPricePlacement ==
    (last.name = "tokensForStrategy")
    => /\ (Lt(last.minRange, last.price) /\ Lt(last.price, last.maxRange))
          => (Gt(last.ret[1], Zero) /\ Gt(last.ret[2], Zero))
       /\ Le(last.price, last.minRange) => (last.ret[2] = Zero)
       /\ Ge(last.price, last.maxRange) => (last.ret[1] = Zero)

----------------------------------------------------------------------------
(* Properties of the drawdown figures.                                      *)

\* C14: maxDrawdown is the largest decline from a peak to a later value, so
\* a value observed before a later, higher peak is not measured against that
\* peak: an update() whose total value is at least every total value before
\* it (a new peak, which no later value has yet fallen from) leaves
\* maxDrawdown as it was.
C14_NewPeakLeavesDrawdown ==
    [][(/\ last'.name = "update"
        /\ pos.totalDataPoints >= 1
        /\ Ge(totalValue(pos'), pos.maxPortfolioValue))
       => maxDrawdown(pos') = maxDrawdown(pos)]_vars

\* C15: while no update() has produced a total value above the initial
\* investment, the trough is the one of construction and maxDrawdown is 0;
\* once the trough has been set, it is at most the peak.
C15_TroughWaitsForGain ==
    /\ (~Gt(pos.maxPortfolioValue, pos.initialAmount))
       => (pos.minPortfolioValue = MAX_VALUE /\ maxDrawdown(pos) = Zero)
    /\ (pos.minPortfolioValue # MAX_VALUE)
       => Le(pos.minPortfolioValue, pos.maxPortfolioValue)

\* Tracking has begun and a value below the peak has been recorded.
C15_Witness ==
    /\ last.name = "update"
    /\ pos.minPortfolioValue # MAX_VALUE
    /\ Lt(pos.minPortfolioValue, pos.maxPortfolioValue)
    /\ Gt(maxDrawdown(pos), Zero)

----------------------------------------------------------------------------
(* Properties of the hold baseline, the impermanent loss and the time in    *)
(* range.                                                                   *)

\* C16: the hold-strategy value behind netGainVsHold is the value of the
\* 50/50 split bought at the price of construction, so a rebalance() call,
\* closing or not, leaves it as it was.
C16_RebalanceKeepsHoldBaseline ==
    [][(last'.name = "rebalance")
       => calculateHoldStrategyValue(pos') = calculateHoldStrategyValue(pos)]_vars

\* C17: in every state where the BTC asset's current price equals its price
\* at construction, the impermanentLoss of currentStatus() is 0, whether the
\* BTC asset is token0 or token1. (This driver never rebalances, so the
\* position is the one opened at construction.)
C17_NoLossAtOpeningPrice ==
    (pos.currentBtcPrice = (IF IncludesBTC(pos.token0Symbol)
                            THEN pos.initialToken0Price
                            ELSE pos.initialToken1Price))
    => impermanentLoss(pos) = Zero

\* C18: getTimeInRange() is 100 times the number of update() calls whose tick
\* lay within the range in force at the call, over the number of update()
\* calls, and 0 before any update; a step flagged wasRebalanced with a tick
\* in range counts. Step by step: no update gives 0, and each update() adds
\* 100 to getTimeInRange() times the number of calls if its tick is in range
\* and nothing if it is not.
C18_TimeInRangeCountsTicksInRange ==
    /\ (pos.totalDataPoints = 0) => (getTimeInRange(pos) = Zero)
    /\ [][(last'.name = "update")
          => Mul(getTimeInRange(pos'), Num(pos'.totalDataPoints))
             = Add(Mul(getTimeInRange(pos), Num(pos.totalDataPoints)),
                   IF /\ pos'.currentTick >= pos'.positionRange.tickLower
                      /\ pos'.currentTick <= pos'.positionRange.tickUpper
                   THEN Num(100) ELSE Zero)]_vars

----------------------------------------------------------------------------
(* Properties of the history and of separate instances.                     *)

\* C19: the history of sub-positions is append-only: every update() and
\* rebalance() call leaves the records already in it in place, in order and
\* as they were, and the history never gets shorter.
C19_HistoryIsAppendOnly ==
    [][/\ Len(completedPositions(pos')) >= Len(completedPositions(pos))
       /\ SubSeq(completedPositions(pos'), 1, Len(completedPositions(pos)))
             = completedPositions(pos)]_vars

\* A second record has been appended behind the first.
C19_Witness ==
    /\ last.name = "rebalance"
    /\ Len(completedPositions(pos)) = 2
    /\ pos.totalDataPoints >= 2

\* C20: two positions share no mutable state: an update() or rebalance()
\* call on one of them leaves every field of the other, its history read
\* through the reference it holds, and the figures derived from them, as they
\* were, whatever the order of the calls.
C20_InstancesAreSeparate ==
    [][\A i \in Instances :
          (last'.instance = i)
          => /\ this(pos', 3 - i) = this(pos, 3 - i)
             /\ completedPositions(this(pos', 3 - i))
                = completedPositions(this(pos, 3 - i))
             /\ totalValue(this(pos', 3 - i)) = totalValue(this(pos, 3 - i))
             /\ netGainVsHold(this(pos', 3 - i)) = netGainVsHold(this(pos, 3 - i))
             /\ maxDrawdown(this(pos', 3 - i)) = maxDrawdown(this(pos, 3 - i))
             /\ getTimeInRange(this(pos', 3 - i))
                = getTimeInRange(this(pos, 3 - i))]_vars

\* Calls on the two positions have been interleaved: each has a history of
\* one record of its own, the first's with fees and the second's without,
\* and the call just made, a rebalance() of the first, pushed the first's.
C20_Witness ==
    /\ last.instance = 1
    /\ last.name = "rebalance"
    /\ Len(completedPositions(this(pos, 1))) = 1
    /\ Len(completedPositions(this(pos, 2))) = 1
    /\ Gt(completedPositions(this(pos, 1))[1].fees, Zero)
    /\ completedPositions(this(pos, 2))[1].fees = Zero

----------------------------------------------------------------------------
(* Properties of the range and of the counters of rebalance().              *)

\* C21: tickLower <= tickUpper for the range of every position type,
\* full-range or of a percentage width, at every positive price. (A
\* comparison with a tick that is no number is false.)
C21_TickLowerAtMostTickUpper ==
    (last.name = "getPositionTickRange")
    => /\ last.ret.tickLower # NaNTick
       /\ last.ret.tickUpper # NaNTick
       /\ last.ret.tickLower <= last.ret.tickUpper

\* C22: for a percentage-range position, an update() whose snapshot has a
\* low or a high that is no finite number (no number at all, or Infinity) or
\* is zero or negative has an active-liquidity percentage of 0 and returns a
\* fee of 0; the call returns, the snapshot is counted, and the fees earned
\* stay as they were.
C22_DegenerateCandleIsNeutral ==
    [][(/\ last'.name = "update"
        /\ pos.positionType # "full-range"
        /\ \/ last'.dataPoint.low.k \in {"nan", "inf"}
           \/ last'.dataPoint.high.k \in {"nan", "inf"}
           \/ (last'.dataPoint.low.k = "num" /\ Le(last'.dataPoint.low.v, Zero))
           \/ (last'.dataPoint.high.k = "num" /\ Le(last'.dataPoint.high.v, Zero)))
       => /\ last'.active = Zero
          /\ last'.ret = Zero
          /\ pos'.cumulativeFees = pos.cumulativeFees
          /\ pos'.totalDataPoints = pos.totalDataPoints + 1]_vars

\* A later snapshot, in range and with the accumulator of token0 ahead of the
\* first one's, had a low of zero and earned nothing.
C22_Witness ==
    /\ last.name = "update"
    /\ pos.positionType # "full-range"
    /\ last.dataPoint.low = FloatText(Zero)
    /\ last.dataPoint.feeGrowthGlobal0X128 = BigIntText(3)
    /\ pos.totalDataPoints = 3
    /\ pos.currentTick >= pos.positionRange.tickLower
    /\ pos.currentTick <= pos.positionRange.tickUpper
    /\ last.ret = Zero
    /\ Gt(pos.cumulativeFees, Zero)

\* C23: a non-closing rebalance() raises rebalanceCount by exactly 1, adds
\* its gasCost to totalGasCosts and resets currentPositionDataPoints and
\* currentPositionFees to 0; a closing rebalance() resets the two as well and
\* leaves rebalanceCount and totalGasCosts as they were. No update() changes
\* rebalanceCount, so it is the number of non-closing rebalance() calls.
C23_RebalanceCounters ==
    [][/\ (last'.name = "rebalance")
          => /\ pos'.currentPositionDataPoints = 0
             /\ pos'.currentPositionFees = Zero
             /\ pos'.rebalanceCount
                  = pos.rebalanceCount + (IF last'.isClosing THEN 0 ELSE 1)
             /\ pos'.totalGasCosts
                  = Add(pos.totalGasCosts,
                        IF last'.isClosing THEN Zero ELSE last'.gasCost)
       /\ (last'.name = "update") => (pos'.rebalanceCount = pos.rebalanceCount)]_vars

\* A closing call and then a non-closing one have been made, the latter on a
\* sub-position with fees: one rebalance is counted, with its gas.
C23_Witness ==
    /\ last.name = "rebalance"
    /\ ~last.isClosing
    /\ closed
    /\ calls = 2
    /\ pos.rebalanceCount = 1
    /\ pos.totalGasCosts = Num(1)
    /\ Gt(pos.cumulativeFees, Zero)
    /\ pos.currentPositionFees = Zero

----------------------------------------------------------------------------
(* Properties of the fee and capital ledgers.                               *)

\* The sum of the fees fields of the first n records of a history.
RECURSIVE SumOfFees(_, _)
SumOfFees(records, n) ==
    IF n = 0 THEN Zero ELSE Add(SumOfFees(records, n - 1), records[n].fees)

\* C24: in every state cumulativeFees is the sum of the fees of all history
\* records plus currentPositionFees, and currentPositionCapital is
\* initialAmount plus the sum of the fees of all history records (no gas
\* cost is taken from the capital).
C24_FeesAndCapitalAddUp ==
    /\ pos.cumulativeFees
         = Add(SumOfFees(pos.positionResults, Len(pos.positionResults)),
               pos.currentPositionFees)
    /\ pos.currentPositionCapital
         = Add(pos.initialAmount,
               SumOfFees(pos.positionResults, Len(pos.positionResults)))

\* A sub-position with fees has been recorded at a rebalance that cost gas,
\* and the sub-position open now has earned fees of its own.
C24_Witness ==
    /\ last.name = "update"
    /\ Len(pos.positionResults) >= 1
    /\ Gt(pos.positionResults[1].fees, Zero)
    /\ Gt(pos.positionResults[1].gasCost, Zero)
    /\ Gt(pos.currentPositionFees, Zero)
    /\ Gt(pos.currentPositionCapital, pos.initialAmount)

----------------------------------------------------------------------------
(* Properties of the liquidity formula and of the range of a rebalance.     *)

\* C25: for every price and bounds liquidityForStrategy takes the branch
\* (below-range, in-range, above-range) that tokensForStrategy takes for the
\* same price and bounds, the two bounds themselves included.
C25_LiquidityFollowsAllocation ==
    (last.name = "liquidityForStrategy")
    => liquidityRegion(
           MathSqrt(Mul(last.price, Pow10(pos.token0Decimals - pos.token1Decimals))),
           MathSqrt(Mul(last.low, Pow10(pos.token0Decimals - pos.token1Decimals))),
           MathSqrt(Mul(last.high, Pow10(pos.token0Decimals - pos.token1Decimals))))
       = tokensRegion(
           MathSqrt(Mul(last.price, Pow10(pos.token0Decimals - pos.token1Decimals))),
           MathSqrt(Mul(last.low, Pow10(pos.token0Decimals - pos.token1Decimals))),
           MathSqrt(Mul(last.high, Pow10(pos.token0Decimals - pos.token1Decimals))))

\* C26: after a non-closing rebalance(newTick, ...) of a percentage-range
\* position the new range holds newTick, tickLower <= newTick <= tickUpper,
\* for every newTick the caller passes.
C26_RebalancedRangeHoldsNewTick ==
    [][(/\ last'.name = "rebalance"
        /\ ~last'.isClosing
        /\ pos.positionType # "full-range")
       => /\ pos'.positionRange.tickLower <= last'.currentTick
          /\ last'.currentTick <= pos'.positionRange.tickUpper]_vars

----------------------------------------------------------------------------
(* Properties of the status figures and of what update() leaves alone.      *)

\* C27: the notes of currentStatus(isLastDataPoint) are "Start" exactly when
\* one update() has been applied; otherwise "Rebalanced" when the latest
\* update() was flagged wasRebalanced; otherwise "End" when isLastDataPoint;
\* otherwise empty. Step by step: before any update() they are "End" or
\* empty, an update() sets them by its place and its flag, and a rebalance()
\* leaves them as they were.
C27_NotesPrecedence ==
    /\ (pos.totalDataPoints = 0) => (notes(pos, TRUE) = "End" /\ notes(pos, FALSE) = "")
    /\ [][\A isLastDataPoint \in BOOLEAN :
            /\ (last'.name = "update")
               => notes(pos', isLastDataPoint)
                  = (IF pos.totalDataPoints = 0 THEN "Start"
                     ELSE IF last'.wasRebalanced THEN "Rebalanced"
                     ELSE IF isLastDataPoint THEN "End"
                     ELSE "")
            /\ (last'.name = "rebalance")
               => notes(pos', isLastDataPoint) = notes(pos, isLastDataPoint)]_vars

\* The one update() applied was flagged wasRebalanced and is taken for the
\* last data point: the notes are "Start".
C27_Witness ==
    /\ last.name = "update"
    /\ last.wasRebalanced
    /\ pos.totalDataPoints = 1
    /\ notes(pos, TRUE) = "Start"

\* C28: in a run where both prices stay at their initial values (BTC as
\* token0), the pnl of currentStatus(), totalPortfolioValue minus the initial
\* investment, equals lpFeesEarned, the cumulative fees, after any number of
\* update() and rebalance() calls.
C28_PnlIsFeesAtConstantPrice ==
    Sub(totalValue(pos), pos.initialAmount) = pos.cumulativeFees

\* What rebalance() owns: the range, the token balances, the liquidity units,
\* the LP share, the capital, the rebalance counters and the history.
ownedByRebalance(p) ==
    << p.positionRange, p.usdcAmount, p.btcAmount, p.liquidityAmount,
       p.lpSharePercentage, p.currentPositionCapital, p.rebalanceCount,
       p.totalGasCosts, p.positionResults >>

\* C29: update() never changes the position range, the token balances, the
\* liquidity-unit count, the LP share, currentPositionCapital, rebalanceCount,
\* totalGasCosts or the sub-position history; a step that changes one of them
\* is a rebalance() call.
C29_UpdateLeavesAllocationAlone ==
    [][/\ (last'.name = "update") => ownedByRebalance(pos') = ownedByRebalance(pos)
       /\ (ownedByRebalance(pos') # ownedByRebalance(pos)) => last'.name = "rebalance"]_vars

\* An update() that earned fees at a price other than the one the balances
\* were allocated at, after a rebalance() that did change the allocation.
C29_Witness ==
    /\ last.name = "update"
    /\ Gt(last.ret, Zero)
    /\ pos.currentToken0Price # pos.initialToken0Price
    /\ pos.rebalanceCount > 0
    /\ Len(pos.positionResults) > 0
    /\ pos.currentPositionCapital # pos.initialAmount

\* The gasCost fields of the first n records, summed.
RECURSIVE SumOfGasCosts(_, _)
SumOfGasCosts(records, n) ==
    IF n = 0 THEN Zero ELSE Add(SumOfGasCosts(records, n - 1), records[n].gasCost)

\* C30: in every reachable state totalGasCosts, the gas subtracted in
\* netFeesEarned and in the running APR, equals the sum of the gasCost fields
\* of all sub-position history records, for any sequence of closing and
\* non-closing rebalance() calls.
C30_GasCostsMatchHistory ==
    pos.totalGasCosts = SumOfGasCosts(completedPositions(pos), Len(completedPositions(pos)))

====
